---- MODULE Spec2Model ----
(***************************************************************************)
(* Model of the toniebox-api-go client library: the request handler        *)
(* (login, authenticated GET/PATCH, three-step upload, disconnect) and the *)
(* Client / CreativeTonie facade on top of it.                             *)
(*                                                                         *)
(* One client and one CreativeTonie instance held by the caller are        *)
(* modelled.  Every public operation is one action; the HTTP responses the *)
(* operation receives, and the local file system, are inputs drawn from    *)
(* small sets.  The requests issued and responses consumed by the most     *)
(* recent operation are kept in `sent' and `recv'.                         *)
(***************************************************************************)
EXTENDS Integers, Sequences, FiniteSets, TLC

(***************************************************************************)
(* Bounds                                                                  *)
(***************************************************************************)
\* longest chapter sequence the caller lets an instance grow to by uploads
MaxChapters == 3

(***************************************************************************)
(* Program constants                                                       *)
(***************************************************************************)
openIDConnect    == "https://login.tonies.com/auth/realms/tonies/protocol/openid-connect/token"
session          == "https://api.tonie.cloud/v2/sessions"
me               == "https://api.tonie.cloud/v2/me"
households       == "https://api.tonie.cloud/v2/households"
fileUpload       == "https://api.tonie.cloud/v2/file"
fileUploadAmazon == "https://bxn-toniecloud-prod-upload.s3.amazonaws.com/"

\* fmt.Sprintf(creativeTonies, householdID)
creativeTonies(hid) == "https://api.tonie.cloud/v2/households/" \o hid \o "/creativetonies"
\* fmt.Sprintf(creativeTonie, householdID, tonieID)
creativeTonie(hid, tid) ==
    "https://api.tonie.cloud/v2/households/" \o hid \o "/creativetonies/" \o tid

contentTypeJSON == "application/json"
contentTypeForm == "application/x-www-form-urlencoded"

grantTypePassword == "password"
clientID          == "my-tonies"
scopeOpenID       == "openid"

StatusOK        == 200
StatusNoContent == 204

(***************************************************************************)
(* JSON documents.  A response body is the document the server sent; it is *)
(* either not JSON at all ("invalid") or a tagged JSON value.              *)
(***************************************************************************)
JInvalid == [t |-> "invalid"]
JNull    == [t |-> "null"]
JStr(s)  == [t |-> "string", s |-> s]
JNum(n)  == [t |-> "number", n |-> n]
JBool(b) == [t |-> "bool", b |-> b]
JArr(a)  == [t |-> "array", a |-> a]
JObj(o)  == [t |-> "object", o |-> o]

\* encoding/json: a struct field is filled from the member of the same name;
\* an absent member or a JSON null leaves the zero value; a member of another
\* JSON type is an UnmarshalTypeError.
HasMember(obj, name) == name \in DOMAIN obj /\ obj[name].t # "null"
MemberOk(obj, name, type) == HasMember(obj, name) => obj[name].t = type
StrMember(obj, name)  == IF HasMember(obj, name) THEN obj[name].s ELSE ""
NumMember(obj, name)  == IF HasMember(obj, name) THEN obj[name].n ELSE 0
BoolMember(obj, name) == IF HasMember(obj, name) THEN obj[name].b ELSE FALSE
ArrMember(obj, name)  == IF HasMember(obj, name) THEN obj[name].a ELSE <<>>

\* json.Decoder.Decode into a struct: the document must be JSON, and either
\* null (the target keeps its zero value) or an object.
DecodesAsStruct(doc) == doc.t \in {"null", "object"}
DecodesAsSlice(doc)  == doc.t \in {"null", "array"}

(***************************************************************************)
(* Types (zero values and decoders)                                        *)
(***************************************************************************)
\* rh.jwtToken == nil
NilToken == [nil |-> TRUE]

ZeroJWTToken ==
    [AccessToken |-> "", ExpiresIn |-> 0, RefreshToken |-> "",
     TokenType |-> "", Scope |-> ""]

JWTTokenFieldsOk(o) ==
    /\ MemberOk(o, "access_token", "string")
    /\ MemberOk(o, "expires_in", "number")
    /\ MemberOk(o, "refresh_token", "string")
    /\ MemberOk(o, "token_type", "string")
    /\ MemberOk(o, "scope", "string")

\* json.NewDecoder(resp.Body).Decode(&token), token a JWTToken
DecodeJWTToken(doc) ==
    IF ~DecodesAsStruct(doc) THEN [ok |-> FALSE]
    ELSE IF doc.t = "null" THEN [ok |-> TRUE, val |-> ZeroJWTToken]
    ELSE IF ~JWTTokenFieldsOk(doc.o) THEN [ok |-> FALSE]
    ELSE [ok |-> TRUE,
          val |-> [AccessToken  |-> StrMember(doc.o, "access_token"),
                   ExpiresIn    |-> NumMember(doc.o, "expires_in"),
                   RefreshToken |-> StrMember(doc.o, "refresh_token"),
                   TokenType    |-> StrMember(doc.o, "token_type"),
                   Scope        |-> StrMember(doc.o, "scope")]]

ZeroChapter ==
    [ID |-> "", File |-> "", Title |-> "", Seconds |-> 0, Transcoding |-> FALSE]

ChapterFieldsOk(o) ==
    /\ MemberOk(o, "id", "string")
    /\ MemberOk(o, "file", "string")
    /\ MemberOk(o, "title", "string")
    /\ MemberOk(o, "seconds", "number")
    /\ MemberOk(o, "transcoding", "bool")

ChapterOk(doc) ==
    /\ DecodesAsStruct(doc)
    /\ doc.t = "object" => ChapterFieldsOk(doc.o)

DecodeChapter(doc) ==
    IF doc.t = "null" THEN ZeroChapter
    ELSE [ID          |-> StrMember(doc.o, "id"),
          File        |-> StrMember(doc.o, "file"),
          Title       |-> StrMember(doc.o, "title"),
          Seconds     |-> NumMember(doc.o, "seconds"),
          Transcoding |-> BoolMember(doc.o, "transcoding")]

\* tonie.household == nil
NilHousehold == [nil |-> TRUE]

\* the zero CreativeTonie: what a caller's CreativeTonie{} literal holds and
\* what decoding starts from.  Chapters and TranscodingErrors are slices:
\* ChaptersNil and TranscodingErrorsNil tell a nil slice from an empty one,
\* which json.Marshal writes as null and as [].
ZeroCreativeTonie ==
    [ID |-> "", Name |-> "", Live |-> FALSE, Private |-> FALSE, ImageURL |-> "",
     TranscodingErrors |-> <<>>, Transcoding |-> FALSE,
     SecondsPresent |-> 0, SecondsRemaining |-> 0,
     ChaptersPresent |-> 0, ChaptersRemaining |-> 0,
     Chapters |-> <<>>, HouseholdID |-> "",
     ChaptersNil |-> TRUE, TranscodingErrorsNil |-> TRUE,
     household |-> NilHousehold, requestHandler |-> "nil"]

StrArrayOk(a) == \A i \in DOMAIN a : a[i].t \in {"string", "null"}

CreativeTonieFieldsOk(o) ==
    /\ MemberOk(o, "id", "string")
    /\ MemberOk(o, "name", "string")
    /\ MemberOk(o, "live", "bool")
    /\ MemberOk(o, "private", "bool")
    /\ MemberOk(o, "imageUrl", "string")
    /\ MemberOk(o, "transcodingErrors", "array")
    /\ HasMember(o, "transcodingErrors") => StrArrayOk(o["transcodingErrors"].a)
    /\ MemberOk(o, "transcoding", "bool")
    /\ MemberOk(o, "secondsPresent", "number")
    /\ MemberOk(o, "secondsRemaining", "number")
    /\ MemberOk(o, "chaptersPresent", "number")
    /\ MemberOk(o, "chaptersRemaining", "number")
    /\ MemberOk(o, "chapters", "array")
    /\ HasMember(o, "chapters") =>
           \A i \in DOMAIN o["chapters"].a : ChapterOk(o["chapters"].a[i])
    /\ MemberOk(o, "householdId", "string")

CreativeTonieOk(doc) ==
    /\ DecodesAsStruct(doc)
    /\ doc.t = "object" => CreativeTonieFieldsOk(doc.o)

\* the value a CreativeTonie takes when decoded from doc; the unexported
\* fields household and requestHandler carry `json:"-"' and stay zero
DecodeCreativeTonie(doc) ==
    IF doc.t = "null" THEN ZeroCreativeTonie
    ELSE [ID                |-> StrMember(doc.o, "id"),
          Name              |-> StrMember(doc.o, "name"),
          Live              |-> BoolMember(doc.o, "live"),
          Private           |-> BoolMember(doc.o, "private"),
          ImageURL          |-> StrMember(doc.o, "imageUrl"),
          TranscodingErrors |->
              [i \in DOMAIN ArrMember(doc.o, "transcodingErrors") |->
                  IF ArrMember(doc.o, "transcodingErrors")[i].t = "null" THEN ""
                  ELSE ArrMember(doc.o, "transcodingErrors")[i].s],
          Transcoding       |-> BoolMember(doc.o, "transcoding"),
          SecondsPresent    |-> NumMember(doc.o, "secondsPresent"),
          SecondsRemaining  |-> NumMember(doc.o, "secondsRemaining"),
          ChaptersPresent   |-> NumMember(doc.o, "chaptersPresent"),
          ChaptersRemaining |-> NumMember(doc.o, "chaptersRemaining"),
          Chapters          |->
              [i \in DOMAIN ArrMember(doc.o, "chapters") |->
                  DecodeChapter(ArrMember(doc.o, "chapters")[i])],
          HouseholdID       |-> StrMember(doc.o, "householdId"),
          ChaptersNil       |-> ~HasMember(doc.o, "chapters"),
          TranscodingErrorsNil |-> ~HasMember(doc.o, "transcodingErrors"),
          household         |-> NilHousehold,
          requestHandler    |-> "nil"]

ZeroAmazonBean ==
    [FileID |-> "",
     Request |-> [URL |-> "",
                  Fields |-> [Key |-> "", Policy |-> "", XAmzAlgorithm |-> "",
                              XAmzCredential |-> "", XAmzDate |-> "",
                              XAmzSignature |-> "", XAmzSecurityToken |-> ""]]]

FieldsBeanOk(doc) ==
    /\ DecodesAsStruct(doc)
    /\ doc.t = "object" =>
         \A n \in {"key", "policy", "x-amz-algorithm", "x-amz-credential",
                   "x-amz-date", "x-amz-signature", "x-amz-security-token"} :
             MemberOk(doc.o, n, "string")

DecodeFieldsBean(doc) ==
    IF doc.t = "null" THEN ZeroAmazonBean.Request.Fields
    ELSE [Key               |-> StrMember(doc.o, "key"),
          Policy            |-> StrMember(doc.o, "policy"),
          XAmzAlgorithm     |-> StrMember(doc.o, "x-amz-algorithm"),
          XAmzCredential    |-> StrMember(doc.o, "x-amz-credential"),
          XAmzDate          |-> StrMember(doc.o, "x-amz-date"),
          XAmzSignature     |-> StrMember(doc.o, "x-amz-signature"),
          XAmzSecurityToken |-> StrMember(doc.o, "x-amz-security-token")]

RequestBeanOk(doc) ==
    /\ DecodesAsStruct(doc)
    /\ doc.t = "object" =>
         /\ MemberOk(doc.o, "url", "string")
         /\ HasMember(doc.o, "fields") => FieldsBeanOk(doc.o["fields"])

DecodeRequestBean(doc) ==
    IF doc.t = "null" THEN ZeroAmazonBean.Request
    ELSE [URL    |-> StrMember(doc.o, "url"),
          Fields |-> IF HasMember(doc.o, "fields")
                     THEN DecodeFieldsBean(doc.o["fields"])
                     ELSE ZeroAmazonBean.Request.Fields]

AmazonBeanOk(doc) ==
    /\ DecodesAsStruct(doc)
    /\ doc.t = "object" =>
         /\ MemberOk(doc.o, "fileId", "string")
         /\ HasMember(doc.o, "request") => RequestBeanOk(doc.o["request"])

\* json.NewDecoder(resp.Body).Decode(&amazonBean)
DecodeAmazonBean(doc) ==
    IF ~AmazonBeanOk(doc) THEN [ok |-> FALSE]
    ELSE IF doc.t = "null" THEN [ok |-> TRUE, val |-> ZeroAmazonBean]
    ELSE [ok |-> TRUE,
          val |-> [FileID  |-> StrMember(doc.o, "fileId"),
                   Request |-> IF HasMember(doc.o, "request")
                               THEN DecodeRequestBean(doc.o["request"])
                               ELSE ZeroAmazonBean.Request]]

ZeroMe ==
    [Email |-> "", UUID |-> "", FirstName |-> "", LastName |-> "", Sex |-> "",
     AcceptedTermsOfUse |-> FALSE, Tracking |-> FALSE, AuthCode |-> "",
     ProfileImage |-> "", Verified |-> FALSE, EduUser |-> FALSE,
     NotificationCount |-> 0, RequiresVerificationToUpload |-> FALSE]

MeOk(doc) ==
    /\ DecodesAsStruct(doc)
    /\ doc.t = "object" =>
         /\ \A n \in {"email", "uuid", "firstName", "lastName", "sex",
                      "authCode", "profileImage"} : MemberOk(doc.o, n, "string")
         /\ \A n \in {"acceptedTermsOfUse", "tracking", "isVerified", "isEduUser",
                      "requiresVerificationToUpload"} : MemberOk(doc.o, n, "bool")
         /\ MemberOk(doc.o, "notificationCount", "number")

DecodeMe(doc) ==
    IF doc.t = "null" THEN ZeroMe
    ELSE [Email              |-> StrMember(doc.o, "email"),
          UUID               |-> StrMember(doc.o, "uuid"),
          FirstName          |-> StrMember(doc.o, "firstName"),
          LastName           |-> StrMember(doc.o, "lastName"),
          Sex                |-> StrMember(doc.o, "sex"),
          AcceptedTermsOfUse |-> BoolMember(doc.o, "acceptedTermsOfUse"),
          Tracking           |-> BoolMember(doc.o, "tracking"),
          AuthCode           |-> StrMember(doc.o, "authCode"),
          ProfileImage       |-> StrMember(doc.o, "profileImage"),
          Verified           |-> BoolMember(doc.o, "isVerified"),
          EduUser            |-> BoolMember(doc.o, "isEduUser"),
          NotificationCount  |-> NumMember(doc.o, "notificationCount"),
          RequiresVerificationToUpload |->
              BoolMember(doc.o, "requiresVerificationToUpload")]

ZeroHousehold ==
    [ID |-> "", Name |-> "", Image |-> "", ForeignCreativeTonieContent |-> FALSE,
     Access |-> "", CanLeave |-> FALSE, OwnerName |-> ""]

HouseholdOk(doc) ==
    /\ DecodesAsStruct(doc)
    /\ doc.t = "object" =>
         /\ \A n \in {"id", "name", "image", "access", "ownerName"} :
                MemberOk(doc.o, n, "string")
         /\ \A n \in {"foreignCreativeTonieContent", "canLeave"} :
                MemberOk(doc.o, n, "bool")

DecodeHousehold(doc) ==
    IF doc.t = "null" THEN ZeroHousehold
    ELSE [ID       |-> StrMember(doc.o, "id"),
          Name     |-> StrMember(doc.o, "name"),
          Image    |-> StrMember(doc.o, "image"),
          ForeignCreativeTonieContent |->
              BoolMember(doc.o, "foreignCreativeTonieContent"),
          Access   |-> StrMember(doc.o, "access"),
          CanLeave |-> BoolMember(doc.o, "canLeave"),
          OwnerName |-> StrMember(doc.o, "ownerName")]

\* Decode into a []Household / []CreativeTonie
HouseholdsOk(doc) ==
    /\ DecodesAsSlice(doc)
    /\ doc.t = "array" => \A i \in DOMAIN doc.a : HouseholdOk(doc.a[i])

DecodeHouseholds(doc) ==
    IF doc.t = "null" THEN <<>>
    ELSE [i \in DOMAIN doc.a |-> DecodeHousehold(doc.a[i])]

CreativeToniesOk(doc) ==
    /\ DecodesAsSlice(doc)
    /\ doc.t = "array" => \A i \in DOMAIN doc.a : CreativeTonieOk(doc.a[i])

DecodeCreativeTonies(doc) ==
    IF doc.t = "null" THEN <<>>
    ELSE [i \in DOMAIN doc.a |-> DecodeCreativeTonie(doc.a[i])]

(***************************************************************************)
(* Requests, responses, errors                                             *)
(***************************************************************************)
\* req.Header: a function from header names to values; http.NewRequest
\* starts with no header set
NoHeader == [h \in {} |-> ""]
SetHeader(hdr, name, value) == (name :> value) @@ hdr

NoBody == [t |-> "none"]

\* a variant that takes the scheme from the token's token_type
Bearer_fromTokenType(tok) == tok.TokenType \o " " \o tok.AccessToken

\* "Bearer "+rh.jwtToken.AccessToken
Bearer(tok) == "Bearer " \o tok.AccessToken

\* if rh.jwtToken != nil { req.Header.Set("Authorization", ...) }
WithBearerIfPresent(tok, hdr) ==
    IF tok # NilToken THEN SetHeader(hdr, "Authorization", Bearer(tok)) ELSE hdr

\* what rh.client.Do returns: a transport error, or a response
TransportError == [kind |-> "transport", err |-> "timeout"]
Response(code, body) == [kind |-> "http", StatusCode |-> code, Body |-> body]

\* error values: fmt.Errorf("<msg> %d: %s", status, body) and
\* fmt.Errorf("<msg>: %w", err)
NoError == [kind |-> "ok"]
StatusErrorf(msg, resp) ==
    [kind |-> "error", msg |-> msg, status |-> resp.StatusCode, body |-> resp.Body]
WrapErrorf(msg, cause) == [kind |-> "error", msg |-> msg, cause |-> cause]
Errorf(msg) == [kind |-> "error", msg |-> msg]

IsError(e) == e.kind = "error"

(***************************************************************************)
(* requestHandler                                                          *)
(***************************************************************************)
\* the form of the password grant (url.Values)
LoginForm(loginData) ==
    [grant_type |-> grantTypePassword, client_id |-> clientID,
     scope |-> scopeOpenID, username |-> loginData.Email,
     password |-> loginData.Password]

LoginRequest(loginData) ==
    [Method |-> "POST", URL |-> openIDConnect,
     Header |-> SetHeader(NoHeader, "Content-Type", contentTypeForm),
     Body |-> LoginForm(loginData)]

\* a variant that decodes and stores the token before looking at the status
login_decodeBeforeStatus(tok, loginData, resp) ==
    LET req == LoginRequest(loginData) IN
    IF resp.kind = "transport"
    THEN [jwtToken |-> tok, sent |-> <<req>>,
          err |-> WrapErrorf("login request failed", resp.err)]
    ELSE IF ~DecodeJWTToken(resp.Body).ok
    THEN [jwtToken |-> tok, sent |-> <<req>>,
          err |-> WrapErrorf("failed to decode token", "json")]
    ELSE IF resp.StatusCode # StatusOK
    THEN [jwtToken |-> DecodeJWTToken(resp.Body).val, sent |-> <<req>>,
          err |-> StatusErrorf("login failed with status", resp)]
    ELSE [jwtToken |-> DecodeJWTToken(resp.Body).val, sent |-> <<req>>,
          err |-> NoError]

\* a variant that drops the stored token when a login is rejected
login_clearOnFailure(tok, loginData, resp) ==
    LET req == LoginRequest(loginData) IN
    IF resp.kind = "transport"
    THEN [jwtToken |-> tok, sent |-> <<req>>,
          err |-> WrapErrorf("login request failed", resp.err)]
    ELSE IF resp.StatusCode # StatusOK
    THEN [jwtToken |-> NilToken, sent |-> <<req>>,
          err |-> StatusErrorf("login failed with status", resp)]
    ELSE IF ~DecodeJWTToken(resp.Body).ok
    THEN [jwtToken |-> tok, sent |-> <<req>>,
          err |-> WrapErrorf("failed to decode token", "json")]
    ELSE [jwtToken |-> DecodeJWTToken(resp.Body).val, sent |-> <<req>>,
          err |-> NoError]

\* requestHandler.login: the new value of rh.jwtToken, the request issued,
\* and the error returned
login(tok, loginData, resp) ==
    LET req == LoginRequest(loginData) IN
    IF resp.kind = "transport"
    THEN [jwtToken |-> tok, sent |-> <<req>>,
          err |-> WrapErrorf("login request failed", resp.err)]
    ELSE IF resp.StatusCode # StatusOK
    THEN [jwtToken |-> tok, sent |-> <<req>>,
          err |-> StatusErrorf("login failed with status", resp)]
    ELSE IF ~DecodeJWTToken(resp.Body).ok
    THEN [jwtToken |-> tok, sent |-> <<req>>,
          err |-> WrapErrorf("failed to decode token", "json")]
    ELSE [jwtToken |-> DecodeJWTToken(resp.Body).val, sent |-> <<req>>,
          err |-> NoError]

GetRequest(tok, url) ==
    [Method |-> "GET", URL |-> url,
     Header |-> WithBearerIfPresent(tok, NoHeader), Body |-> NoBody]

\* a variant with the status check of the PATCH executor
GetStatusOk_accept204(code) == code = StatusOK \/ code = StatusNoContent

\* the status check of executeGetRequest
GetStatusOk(code) == code = StatusOK

\* requestHandler.executeGetRequest; decodes tells whether the body decodes
\* into the result the caller passed
executeGetRequest(tok, url, resp, decodes) ==
    LET req == GetRequest(tok, url) IN
    IF resp.kind = "transport"
    THEN [sent |-> <<req>>, err |-> WrapErrorf("request failed", resp.err)]
    ELSE IF ~GetStatusOk(resp.StatusCode)
    THEN [sent |-> <<req>>, err |-> StatusErrorf("request failed with status", resp)]
    ELSE IF ~decodes
    THEN [sent |-> <<req>>, err |-> WrapErrorf("failed to decode response", "json")]
    ELSE [sent |-> <<req>>, err |-> NoError]

PatchRequest(tok, url, body) ==
    [Method |-> "PATCH", URL |-> url,
     Header |-> WithBearerIfPresent(tok,
                    SetHeader(NoHeader, "Content-Type", contentTypeJSON)),
     Body |-> body]

\* the status check of executePatchRequest
PatchStatusOk(code) == code = StatusOK \/ code = StatusNoContent

\* requestHandler.executePatchRequest
executePatchRequest(tok, url, body, resp) ==
    LET req == PatchRequest(tok, url, body) IN
    IF resp.kind = "transport"
    THEN [sent |-> <<req>>, err |-> WrapErrorf("request failed", resp.err)]
    ELSE IF ~PatchStatusOk(resp.StatusCode)
    THEN [sent |-> <<req>>, err |-> StatusErrorf("request failed with status", resp)]
    ELSE [sent |-> <<req>>, err |-> NoError]

\* requestHandler.getMe
getMe(tok, resp) ==
    LET r == executeGetRequest(tok, me, resp,
                 resp.kind = "http" /\ MeOk(resp.Body)) IN
    IF IsError(r.err) THEN [sent |-> r.sent, err |-> r.err]
    ELSE [sent |-> r.sent, err |-> NoError, result |-> DecodeMe(resp.Body)]

\* requestHandler.getHouseholds
getHouseholds(tok, resp) ==
    LET r == executeGetRequest(tok, households, resp,
                 resp.kind = "http" /\ HouseholdsOk(resp.Body)) IN
    IF IsError(r.err) THEN [sent |-> r.sent, err |-> r.err]
    ELSE [sent |-> r.sent, err |-> NoError, result |-> DecodeHouseholds(resp.Body)]

\* requestHandler.getCreativeTonies: every element of the result gets the
\* household and the request handler as back-references
getCreativeTonies(tok, household, resp) ==
    LET r == executeGetRequest(tok, creativeTonies(household.ID), resp,
                 resp.kind = "http" /\ CreativeToniesOk(resp.Body)) IN
    IF IsError(r.err) THEN [sent |-> r.sent, err |-> r.err]
    ELSE [sent |-> r.sent, err |-> NoError,
          result |-> [i \in DOMAIN DecodeCreativeTonies(resp.Body) |->
                         [DecodeCreativeTonies(resp.Body)[i] EXCEPT
                             !.household = household,
                             !.requestHandler = "rh"]]]

\* requestHandler.refreshTonie
refreshTonie(tok, tonie, resp) ==
    LET r == executeGetRequest(tok, creativeTonie(tonie.household.ID, tonie.ID),
                 resp, resp.kind = "http" /\ CreativeTonieOk(resp.Body)) IN
    IF IsError(r.err) THEN [sent |-> r.sent, err |-> r.err]
    ELSE [sent |-> r.sent, err |-> NoError,
          result |-> [DecodeCreativeTonie(resp.Body) EXCEPT
                         !.household = tonie.household,
                         !.requestHandler = "rh"]]

\* json.Marshal(tonie): the exported fields under their json names; household
\* and requestHandler carry `json:"-"'
MarshalChapter(c) ==
    JObj([id |-> JStr(c.ID), file |-> JStr(c.File), title |-> JStr(c.Title),
          seconds |-> JNum(c.Seconds), transcoding |-> JBool(c.Transcoding)])

MarshalCreativeTonie(tonie) ==
    JObj([id |-> JStr(tonie.ID), name |-> JStr(tonie.Name),
          live |-> JBool(tonie.Live), private |-> JBool(tonie.Private),
          imageUrl |-> JStr(tonie.ImageURL),
          transcodingErrors |->
              IF tonie.TranscodingErrorsNil THEN JNull
              ELSE JArr([i \in DOMAIN tonie.TranscodingErrors |->
                            JStr(tonie.TranscodingErrors[i])]),
          transcoding |-> JBool(tonie.Transcoding),
          secondsPresent |-> JNum(tonie.SecondsPresent),
          secondsRemaining |-> JNum(tonie.SecondsRemaining),
          chaptersPresent |-> JNum(tonie.ChaptersPresent),
          chaptersRemaining |-> JNum(tonie.ChaptersRemaining),
          chapters |->
              IF tonie.ChaptersNil THEN JNull
              ELSE JArr([i \in DOMAIN tonie.Chapters |->
                            MarshalChapter(tonie.Chapters[i])]),
          householdId |-> JStr(tonie.HouseholdID)])

\* a variant that patches the listing endpoint of the household
commitTonie_toListing(tok, tonie, resp) ==
    executePatchRequest(tok, creativeTonies(tonie.household.ID),
                        MarshalCreativeTonie(tonie), resp)

\* requestHandler.commitTonie
commitTonie(tok, tonie, resp) ==
    executePatchRequest(tok, creativeTonie(tonie.household.ID, tonie.ID),
                        MarshalCreativeTonie(tonie), resp)

DisconnectRequest(tok) ==
    [Method |-> "DELETE", URL |-> session,
     Header |-> WithBearerIfPresent(tok, NoHeader), Body |-> NoBody]

\* a variant that gives up without a request when no token is stored
disconnect_requireToken(tok, resp) ==
    LET req == DisconnectRequest(tok) IN
    IF tok = NilToken
    THEN [sent |-> <<>>, err |-> Errorf("not logged in")]
    ELSE IF resp.kind = "transport"
    THEN [sent |-> <<req>>, err |-> WrapErrorf("disconnect request failed", resp.err)]
    ELSE IF resp.StatusCode # StatusOK /\ resp.StatusCode # StatusNoContent
    THEN [sent |-> <<req>>, err |-> StatusErrorf("disconnect failed with status", resp)]
    ELSE [sent |-> <<req>>, err |-> NoError]

\* requestHandler.disconnect
disconnect(tok, resp) ==
    LET req == DisconnectRequest(tok) IN
    IF resp.kind = "transport"
    THEN [sent |-> <<req>>, err |-> WrapErrorf("disconnect request failed", resp.err)]
    ELSE IF resp.StatusCode # StatusOK /\ resp.StatusCode # StatusNoContent
    THEN [sent |-> <<req>>, err |-> StatusErrorf("disconnect failed with status", resp)]
    ELSE [sent |-> <<req>>, err |-> NoError]

(***************************************************************************)
(* Local file system, as the upload sees it                                *)
(***************************************************************************)
Paths == {"audio.mp3", "missing.mp3", "folder"}
\* os.Open(filePath) succeeds
CanOpen(path) == path # "missing.mp3"
\* io.Copy(part, file) succeeds (reading a directory fails)
CanRead(path) == path = "audio.mp3"

(***************************************************************************)
(* requestHandler.uploadFile                                               *)
(***************************************************************************)
CredentialRequest(tok) ==
    [Method |-> "POST", URL |-> fileUpload,
     Header |-> SetHeader(SetHeader(NoHeader, "Content-Type", contentTypeJSON),
                          "Authorization", Bearer(tok)),
     Body |-> JObj([headers |-> JObj(NoHeader)])]

\* the multipart form: the seven fields in the order written, then the file
MultipartForm(fields, filePath) ==
    [fields |-> << <<"key", fields.Key>>,
                   <<"x-amz-algorithm", fields.XAmzAlgorithm>>,
                   <<"x-amz-credential", fields.XAmzCredential>>,
                   <<"x-amz-date", fields.XAmzDate>>,
                   <<"policy", fields.Policy>>,
                   <<"x-amz-signature", fields.XAmzSignature>>,
                   <<"x-amz-security-token", fields.XAmzSecurityToken>> >>,
     file |-> [fieldname |-> "file", filename |-> fields.Key, content |-> filePath]]

\* a variant that presents the ticket's security token as a bearer credential
S3Request_withBearer(fields, filePath) ==
    [Method |-> "POST", URL |-> fileUploadAmazon,
     Header |-> SetHeader(SetHeader(NoHeader, "Content-Type", "multipart/form-data"),
                          "Authorization", "Bearer " \o fields.XAmzSecurityToken),
     Body |-> MultipartForm(fields, filePath)]

S3Request(fields, filePath) ==
    [Method |-> "POST", URL |-> fileUploadAmazon,
     Header |-> SetHeader(NoHeader, "Content-Type", "multipart/form-data"),
     Body |-> MultipartForm(fields, filePath)]

\* a variant with the key and the file identifier exchanged
NewChapter_swapped(amazonBean, title) ==
    [ID |-> amazonBean.FileID, File |-> amazonBean.Request.Fields.Key,
     Title |-> title, Seconds |-> 0, Transcoding |-> FALSE]

\* Step 3: the chapter built from the ticket and the title
NewChapter(amazonBean, title) ==
    [ID |-> amazonBean.Request.Fields.Key, File |-> amazonBean.FileID,
     Title |-> title, Seconds |-> 0, Transcoding |-> FALSE]

\* the status check of the object-storage response
S3StatusOk(code) == code = StatusNoContent \/ code = StatusOK

\* a variant that appends the chapter before it checks the storage status
uploadToS3_appendBeforeStatus(tonie, filePath, title, credReq, credResp, amazonBean, s3Resp) ==
    LET s3Req == S3Request(amazonBean.Request.Fields, filePath) IN
    IF ~CanOpen(filePath)
    THEN [panic |-> FALSE, Chapters |-> tonie.Chapters,
          sent |-> <<credReq>>, recv |-> <<credResp>>,
          opened |-> 0, closed |-> 0,
          err |-> WrapErrorf("failed to open file", "os")]
    ELSE IF ~CanRead(filePath)
    THEN [panic |-> FALSE, Chapters |-> tonie.Chapters,
          sent |-> <<credReq>>, recv |-> <<credResp>>,
          opened |-> 1, closed |-> 1,
          err |-> WrapErrorf("failed to copy file", "io")]
    ELSE IF s3Resp.kind = "transport"
    THEN [panic |-> FALSE, Chapters |-> tonie.Chapters,
          sent |-> <<credReq, s3Req>>, recv |-> <<credResp, s3Resp>>,
          opened |-> 1, closed |-> 1,
          err |-> WrapErrorf("S3 upload failed", s3Resp.err)]
    ELSE [panic |-> FALSE,
          Chapters |-> Append(tonie.Chapters, NewChapter(amazonBean, title)),
          sent |-> <<credReq, s3Req>>, recv |-> <<credResp, s3Resp>>,
          opened |-> 1, closed |-> 1,
          err |-> IF S3StatusOk(s3Resp.StatusCode) THEN NoError
                  ELSE StatusErrorf("S3 upload failed with status", s3Resp)]

\* a variant that goes on to the storage POST when the file did not open
uploadToS3_ignoreOpenError(tonie, filePath, title, credReq, credResp, amazonBean, s3Resp) ==
    LET s3Req == S3Request(amazonBean.Request.Fields, filePath) IN
    IF CanOpen(filePath) /\ ~CanRead(filePath)
    THEN [panic |-> FALSE, Chapters |-> tonie.Chapters,
          sent |-> <<credReq>>, recv |-> <<credResp>>,
          opened |-> 1, closed |-> 1,
          err |-> WrapErrorf("failed to copy file", "io")]
    ELSE IF s3Resp.kind = "transport"
    THEN [panic |-> FALSE, Chapters |-> tonie.Chapters,
          sent |-> <<credReq, s3Req>>, recv |-> <<credResp, s3Resp>>,
          opened |-> 1, closed |-> 1,
          err |-> WrapErrorf("S3 upload failed", s3Resp.err)]
    ELSE IF ~S3StatusOk(s3Resp.StatusCode)
    THEN [panic |-> FALSE, Chapters |-> tonie.Chapters,
          sent |-> <<credReq, s3Req>>, recv |-> <<credResp, s3Resp>>,
          opened |-> 1, closed |-> 1,
          err |-> StatusErrorf("S3 upload failed with status", s3Resp)]
    ELSE [panic |-> FALSE,
          Chapters |-> Append(tonie.Chapters, NewChapter(amazonBean, title)),
          sent |-> <<credReq, s3Req>>, recv |-> <<credResp, s3Resp>>,
          opened |-> 1, closed |-> 1,
          err |-> NoError]

\* a variant that closes the file only before the successful return
uploadToS3_closeOnSuccess(tonie, filePath, title, credReq, credResp, amazonBean, s3Resp) ==
    LET s3Req == S3Request(amazonBean.Request.Fields, filePath) IN
    IF ~CanOpen(filePath)
    THEN [panic |-> FALSE, Chapters |-> tonie.Chapters,
          sent |-> <<credReq>>, recv |-> <<credResp>>,
          opened |-> 0, closed |-> 0,
          err |-> WrapErrorf("failed to open file", "os")]
    ELSE IF ~CanRead(filePath)
    THEN [panic |-> FALSE, Chapters |-> tonie.Chapters,
          sent |-> <<credReq>>, recv |-> <<credResp>>,
          opened |-> 1, closed |-> 0,
          err |-> WrapErrorf("failed to copy file", "io")]
    ELSE IF s3Resp.kind = "transport"
    THEN [panic |-> FALSE, Chapters |-> tonie.Chapters,
          sent |-> <<credReq, s3Req>>, recv |-> <<credResp, s3Resp>>,
          opened |-> 1, closed |-> 0,
          err |-> WrapErrorf("S3 upload failed", s3Resp.err)]
    ELSE IF ~S3StatusOk(s3Resp.StatusCode)
    THEN [panic |-> FALSE, Chapters |-> tonie.Chapters,
          sent |-> <<credReq, s3Req>>, recv |-> <<credResp, s3Resp>>,
          opened |-> 1, closed |-> 0,
          err |-> StatusErrorf("S3 upload failed with status", s3Resp)]
    ELSE [panic |-> FALSE,
          Chapters |-> Append(tonie.Chapters, NewChapter(amazonBean, title)),
          sent |-> <<credReq, s3Req>>, recv |-> <<credResp, s3Resp>>,
          opened |-> 1, closed |-> 1,
          err |-> NoError]

\* Step 2 and 3, entered with the decoded ticket
uploadToS3(tonie, filePath, title, credReq, credResp, amazonBean, s3Resp) ==
    LET s3Req == S3Request(amazonBean.Request.Fields, filePath) IN
    IF ~CanOpen(filePath)
    THEN [panic |-> FALSE, Chapters |-> tonie.Chapters,
          sent |-> <<credReq>>, recv |-> <<credResp>>,
          opened |-> 0, closed |-> 0,
          err |-> WrapErrorf("failed to open file", "os")]
    ELSE IF ~CanRead(filePath)
    THEN [panic |-> FALSE, Chapters |-> tonie.Chapters,
          sent |-> <<credReq>>, recv |-> <<credResp>>,
          opened |-> 1, closed |-> 1,
          err |-> WrapErrorf("failed to copy file", "io")]
    ELSE IF s3Resp.kind = "transport"
    THEN [panic |-> FALSE, Chapters |-> tonie.Chapters,
          sent |-> <<credReq, s3Req>>, recv |-> <<credResp, s3Resp>>,
          opened |-> 1, closed |-> 1,
          err |-> WrapErrorf("S3 upload failed", s3Resp.err)]
    ELSE IF ~S3StatusOk(s3Resp.StatusCode)
    THEN [panic |-> FALSE, Chapters |-> tonie.Chapters,
          sent |-> <<credReq, s3Req>>, recv |-> <<credResp, s3Resp>>,
          opened |-> 1, closed |-> 1,
          err |-> StatusErrorf("S3 upload failed with status", s3Resp)]
    ELSE [panic |-> FALSE,
          Chapters |-> Append(tonie.Chapters, NewChapter(amazonBean, title)),
          sent |-> <<credReq, s3Req>>, recv |-> <<credResp, s3Resp>>,
          opened |-> 1, closed |-> 1,
          err |-> NoError]

\* a variant that goes on to decode the ticket whatever the status was
uploadFile_noStatusCheck(tok, tonie, filePath, title, credResp, s3Resp) ==
    IF tok = NilToken
    THEN [panic |-> TRUE, Chapters |-> tonie.Chapters,
          sent |-> <<>>, recv |-> <<>>, opened |-> 0, closed |-> 0,
          err |-> Errorf("nil pointer dereference")]
    ELSE IF credResp.kind = "transport"
    THEN [panic |-> FALSE, Chapters |-> tonie.Chapters,
          sent |-> <<CredentialRequest(tok)>>, recv |-> <<credResp>>,
          opened |-> 0, closed |-> 0,
          err |-> WrapErrorf("upload request failed", credResp.err)]
    ELSE IF ~DecodeAmazonBean(credResp.Body).ok
    THEN [panic |-> FALSE, Chapters |-> tonie.Chapters,
          sent |-> <<CredentialRequest(tok)>>, recv |-> <<credResp>>,
          opened |-> 0, closed |-> 0,
          err |-> WrapErrorf("failed to decode amazon response", "json")]
    ELSE uploadToS3(tonie, filePath, title, CredentialRequest(tok), credResp,
                    DecodeAmazonBean(credResp.Body).val, s3Resp)

\* requestHandler.uploadFile: the new chapter sequence of the tonie, the
\* requests issued in order, the responses consumed, the file handles
\* opened and closed, and the error returned; panic when the call does not
\* return (rh.jwtToken is dereferenced without a nil check)
uploadFile(tok, tonie, filePath, title, credResp, s3Resp) ==
    IF tok = NilToken
    THEN [panic |-> TRUE, Chapters |-> tonie.Chapters,
          sent |-> <<>>, recv |-> <<>>, opened |-> 0, closed |-> 0,
          err |-> Errorf("nil pointer dereference")]
    ELSE IF credResp.kind = "transport"
    THEN [panic |-> FALSE, Chapters |-> tonie.Chapters,
          sent |-> <<CredentialRequest(tok)>>, recv |-> <<credResp>>,
          opened |-> 0, closed |-> 0,
          err |-> WrapErrorf("upload request failed", credResp.err)]
    ELSE IF credResp.StatusCode # StatusOK
    THEN [panic |-> FALSE, Chapters |-> tonie.Chapters,
          sent |-> <<CredentialRequest(tok)>>, recv |-> <<credResp>>,
          opened |-> 0, closed |-> 0,
          err |-> StatusErrorf("upload request failed with status", credResp)]
    ELSE IF ~DecodeAmazonBean(credResp.Body).ok
    THEN [panic |-> FALSE, Chapters |-> tonie.Chapters,
          sent |-> <<CredentialRequest(tok)>>, recv |-> <<credResp>>,
          opened |-> 0, closed |-> 0,
          err |-> WrapErrorf("failed to decode amazon response", "json")]
    ELSE uploadToS3(tonie, filePath, title, CredentialRequest(tok), credResp,
                    DecodeAmazonBean(credResp.Body).val, s3Resp)

(***************************************************************************)
(* CreativeTonie methods                                                   *)
(***************************************************************************)
\* the loop of FindChapterByTitle from index i on: the index of the element
\* whose address is returned, 0 for nil
\* a variant that returns the last match
findFrom_last(chapters, title, i) ==
    LET m == {j \in i..Len(chapters) : chapters[j].Title = title} IN
    IF m = {} THEN 0 ELSE CHOOSE j \in m : \A k \in m : k <= j

RECURSIVE findFrom(_, _, _)
findFrom(chapters, title, i) ==
    IF i > Len(chapters) THEN 0
    ELSE IF chapters[i].Title = title THEN i
    ELSE findFrom(chapters, title, i + 1)

\* CreativeTonie.FindChapterByTitle
FindChapterByTitle(tonie, title) == findFrom(tonie.Chapters, title, 1)

\* a variant that compares titles
keepChapter_byTitle(c, chapter) == c.Title # chapter.Title

\* a variant with the comparison inverted
keepChapter_inverted(c, chapter) == c.ID = chapter.ID

\* the test that keeps a chapter in DeleteChapter
keepChapter(c, chapter) == c.ID # chapter.ID

\* the loop of DeleteChapter from index i on, newChapters built so far
RECURSIVE deleteFrom(_, _, _, _)
deleteFrom(chapters, chapter, i, newChapters) ==
    IF i > Len(chapters) THEN newChapters
    ELSE IF keepChapter(chapters[i], chapter)
    THEN deleteFrom(chapters, chapter, i + 1, Append(newChapters, chapters[i]))
    ELSE deleteFrom(chapters, chapter, i + 1, newChapters)

\* CreativeTonie.DeleteChapter: the new ct.Chapters
DeleteChapter(tonie, chapter) == deleteFrom(tonie.Chapters, chapter, 1, <<>>)

\* CreativeTonie.UploadFile
UploadFile(tok, tonie, title, filePath, credResp, s3Resp) ==
    IF tonie.requestHandler = "nil"
    THEN [panic |-> FALSE, Chapters |-> tonie.Chapters,
          sent |-> <<>>, recv |-> <<>>, opened |-> 0, closed |-> 0,
          err |-> Errorf("tonie not properly initialized")]
    ELSE uploadFile(tok, tonie, filePath, title, credResp, s3Resp)

\* CreativeTonie.Commit
Commit(tok, tonie, resp) ==
    IF tonie.requestHandler = "nil"
    THEN [sent |-> <<>>, err |-> Errorf("tonie not properly initialized")]
    ELSE commitTonie(tok, tonie, resp)

\* a variant that leaves the chapter sequence of the instance alone
Refresh_keepChapters(tok, tonie, resp) ==
    IF tonie.requestHandler = "nil"
    THEN [tonie |-> tonie, sent |-> <<>>,
          err |-> Errorf("tonie not properly initialized")]
    ELSE LET r == refreshTonie(tok, tonie, resp) IN
         IF IsError(r.err) THEN [tonie |-> tonie, sent |-> r.sent, err |-> r.err]
         ELSE [tonie |-> [tonie EXCEPT
                   !.ID = r.result.ID,
                   !.Name = r.result.Name,
                   !.Live = r.result.Live,
                   !.Private = r.result.Private,
                   !.ImageURL = r.result.ImageURL,
                   !.TranscodingErrors = r.result.TranscodingErrors,
                   !.TranscodingErrorsNil = r.result.TranscodingErrorsNil,
                   !.Transcoding = r.result.Transcoding,
                   !.SecondsPresent = r.result.SecondsPresent,
                   !.SecondsRemaining = r.result.SecondsRemaining,
                   !.ChaptersPresent = r.result.ChaptersPresent,
                   !.ChaptersRemaining = r.result.ChaptersRemaining,
                   !.HouseholdID = r.result.HouseholdID],
               sent |-> r.sent, err |-> NoError]

\* CreativeTonie.Refresh: the new value of the instance
Refresh(tok, tonie, resp) ==
    IF tonie.requestHandler = "nil"
    THEN [tonie |-> tonie, sent |-> <<>>,
          err |-> Errorf("tonie not properly initialized")]
    ELSE LET r == refreshTonie(tok, tonie, resp) IN
         IF IsError(r.err) THEN [tonie |-> tonie, sent |-> r.sent, err |-> r.err]
         ELSE [tonie |-> [tonie EXCEPT
                   !.ID = r.result.ID,
                   !.Name = r.result.Name,
                   !.Live = r.result.Live,
                   !.Private = r.result.Private,
                   !.ImageURL = r.result.ImageURL,
                   !.TranscodingErrors = r.result.TranscodingErrors,
                   !.TranscodingErrorsNil = r.result.TranscodingErrorsNil,
                   !.Transcoding = r.result.Transcoding,
                   !.SecondsPresent = r.result.SecondsPresent,
                   !.SecondsRemaining = r.result.SecondsRemaining,
                   !.ChaptersPresent = r.result.ChaptersPresent,
                   !.ChaptersRemaining = r.result.ChaptersRemaining,
                   !.Chapters = r.result.Chapters,
                   !.ChaptersNil = r.result.ChaptersNil,
                   !.HouseholdID = r.result.HouseholdID],
               sent |-> r.sent, err |-> NoError]

\* Client.Login
Login(tok, username, password, resp) ==
    login(tok, [Email |-> username, Password |-> password], resp)

(***************************************************************************)
(* The environment: what the servers answer and what the caller passes     *)
(***************************************************************************)
ErrDoc == JObj([error |-> JStr("denied")])

TokenDocA ==
    JObj([access_token |-> JStr("abc123"), token_type |-> JStr("Bearer"),
          expires_in |-> JNum(300), refresh_token |-> JStr("r1"),
          scope |-> JStr("openid")])
TokenDocB == JObj([access_token |-> JStr("xyz789")])
TokenDocBadType == JObj([access_token |-> JNum(5)])

LoginResponses ==
    {TransportError}
    \cup {Response(StatusOK, b) :
            b \in {TokenDocA, TokenDocB, TokenDocBadType, JInvalid}}
    \cup {Response(StatusNoContent, TokenDocA), Response(401, ErrDoc)}

Credentials == {[Email |-> "a@b.com", Password |-> "pw"]}

MeDoc == JObj([email |-> JStr("a@b.com"), firstName |-> JStr("Ada"),
               isVerified |-> JBool(TRUE), notificationCount |-> JNum(2)])
MeDocBadType == JObj([email |-> JBool(TRUE)])

MeResponses ==
    {TransportError, Response(StatusOK, MeDoc), Response(StatusOK, MeDocBadType),
     Response(StatusNoContent, MeDoc), Response(401, ErrDoc)}

HouseholdDoc == JObj([id |-> JStr("h1"), name |-> JStr("Home"),
                      canLeave |-> JBool(TRUE)])

HouseholdsResponses ==
    {TransportError, Response(StatusOK, JArr(<<HouseholdDoc>>)),
     Response(StatusOK, ErrDoc), Response(401, ErrDoc)}

\* the households the caller passes to GetCreativeTonies
CallerHouseholds == {DecodeHousehold(HouseholdDoc)}

ChapterDoc ==
    JObj([id |-> JStr("s1"), file |-> JStr("f0"), title |-> JStr("B"),
          seconds |-> JNum(12), transcoding |-> JBool(FALSE)])

TonieDoc1 ==
    JObj([id |-> JStr("t1"), name |-> JStr("Tonie One"), live |-> JBool(TRUE),
          private |-> JBool(FALSE), imageUrl |-> JStr("img1"),
          transcodingErrors |-> JArr(<<>>), transcoding |-> JBool(FALSE),
          secondsPresent |-> JNum(12), secondsRemaining |-> JNum(5388),
          chaptersPresent |-> JNum(1), chaptersRemaining |-> JNum(98),
          chapters |-> JArr(<<ChapterDoc>>), householdId |-> JStr("h1")])

\* the same entity after the server transcoded and renamed it
TonieDoc1Later ==
    JObj([id |-> JStr("t1"), name |-> JStr("Renamed"), live |-> JBool(FALSE),
          private |-> JBool(TRUE), imageUrl |-> JStr("img2"),
          transcodingErrors |-> JArr(<<JStr("bad file")>>),
          transcoding |-> JBool(TRUE),
          secondsPresent |-> JNum(0), secondsRemaining |-> JNum(5400),
          chaptersPresent |-> JNum(0), chaptersRemaining |-> JNum(99),
          chapters |-> JArr(<<>>), householdId |-> JStr("h1")])

TonieDoc2 == JObj([id |-> JStr("t2"), name |-> JStr("Tonie Two"),
                   householdId |-> JStr("h1")])

TonieDocBadType == JObj([id |-> JStr("t1"), chapters |-> JStr("none")])

ListingResponses ==
    {TransportError, Response(StatusOK, JArr(<<TonieDoc1, TonieDoc2>>)),
     Response(StatusOK, JArr(<<>>)), Response(StatusOK, JArr(<<TonieDocBadType>>)),
     Response(StatusOK, ErrDoc), Response(StatusNoContent, JInvalid),
     Response(401, ErrDoc)}

FetchResponses ==
    {TransportError, Response(StatusOK, TonieDoc1), Response(StatusOK, TonieDoc1Later),
     Response(StatusOK, TonieDocBadType),
     Response(StatusNoContent, TonieDoc1Later), Response(401, ErrDoc)}

PatchResponses ==
    {TransportError, Response(StatusOK, TonieDoc1), Response(StatusNoContent, JInvalid),
     Response(201, TonieDoc1), Response(401, ErrDoc)}

SessionResponses ==
    {TransportError, Response(StatusOK, JInvalid), Response(StatusNoContent, JInvalid),
     Response(401, ErrDoc)}

TicketFieldsDoc(key) ==
    JObj(("key" :> JStr(key)) @@ ("policy" :> JStr("pol"))
         @@ ("x-amz-algorithm" :> JStr("AWS4-HMAC-SHA256"))
         @@ ("x-amz-credential" :> JStr("cred"))
         @@ ("x-amz-date" :> JStr("20240101T000000Z"))
         @@ ("x-amz-signature" :> JStr("sig"))
         @@ ("x-amz-security-token" :> JStr("sts")))

TicketDoc(key, fileId) ==
    JObj([fileId |-> JStr(fileId),
          request |-> JObj([url |-> JStr(fileUploadAmazon),
                            fields |-> TicketFieldsDoc(key)])])

TicketDocBadType == JObj([fileId |-> JNum(1)])

CredentialResponses ==
    {TransportError, Response(StatusOK, TicketDoc("k1", "f1")),
     Response(StatusOK, TicketDocBadType),
     Response(StatusNoContent, TicketDoc("k1", "f1")), Response(401, ErrDoc)}

S3Responses ==
    {TransportError, Response(StatusOK, JInvalid), Response(StatusNoContent, JInvalid),
     Response(403, JInvalid)}

\* the object storage answers only a call that reaches it
ReachesS3(filePath, credResp) ==
    /\ credResp.kind = "http"
    /\ credResp.StatusCode = StatusOK
    /\ DecodeAmazonBean(credResp.Body).ok
    /\ CanOpen(filePath)
    /\ CanRead(filePath)

S3ResponsesAfter(filePath, credResp) ==
    IF ReachesS3(filePath, credResp) THEN S3Responses ELSE {TransportError}

\* titles the caller uses for uploads and searches
Titles == {"A", "B"}
SearchTitles == Titles \cup {"a"}

\* the names the caller gives a tonie locally
LocalNames == {"New Name"}

\* a chapter that is in no sequence
ForeignChapter == [ZeroChapter EXCEPT !.ID = "zz", !.Title = "A"]

Range(f) == {f[i] : i \in DOMAIN f}

(***************************************************************************)
(* State                                                                   *)
(***************************************************************************)
VARIABLES
    jwtToken,   \* rh.jwtToken of the client's request handler
    ct,         \* the CreativeTonie instance the caller holds
    status,     \* "running", or "panicked" once a call did not return
    openFiles,  \* file handles opened by the library and not yet closed
    call,       \* the most recent operation and its arguments
    sent,       \* the requests that operation issued, in order
    recv,       \* the responses it consumed, in order
    ret,        \* what it returned
    pre,        \* ct.Chapters when it was called
    granted     \* the access_token member of the body of the latest
                \* successful login's response

vars == <<jwtToken, ct, status, openFiles, call, sent, recv, ret, pre, granted>>

\* NewClient(): no token; the caller holds a CreativeTonie{} it made itself
Init ==
    /\ jwtToken = NilToken
    /\ ct = ZeroCreativeTonie
    /\ status = "running"
    /\ openFiles = 0
    /\ call = [op |-> "NewClient"]
    /\ sent = <<>>
    /\ recv = <<>>
    /\ ret = NoError
    /\ pre = <<>>
    /\ granted = [set |-> FALSE]

\* the access_token member of a response body, as sent
AccessTokenMember(doc) ==
    IF doc.t = "object" /\ "access_token" \in DOMAIN doc.o
       /\ doc.o["access_token"].t = "string"
    THEN doc.o["access_token"].s ELSE ""

Result(val) == [kind |-> "ok", val |-> val]

(***************************************************************************)
(* Actions: one per public operation                                       *)
(***************************************************************************)
CallLogin(loginData, resp) ==
    LET r == Login(jwtToken, loginData.Email, loginData.Password, resp) IN
    /\ status = "running"
    /\ jwtToken' = r.jwtToken
    /\ call' = [op |-> "Login", username |-> loginData.Email,
                password |-> loginData.Password]
    /\ sent' = r.sent
    /\ recv' = <<resp>>
    /\ ret' = r.err
    /\ pre' = ct.Chapters
    /\ granted' = IF IsError(r.err) THEN granted
                  ELSE [set |-> TRUE, access_token |-> AccessTokenMember(resp.Body)]
    /\ UNCHANGED <<ct, status, openFiles>>

CallGetMe(resp) ==
    LET r == getMe(jwtToken, resp) IN
    /\ status = "running"
    /\ call' = [op |-> "GetMe"]
    /\ sent' = r.sent
    /\ recv' = <<resp>>
    /\ ret' = IF IsError(r.err) THEN r.err ELSE Result(r.result)
    /\ pre' = ct.Chapters
    /\ UNCHANGED <<jwtToken, ct, status, openFiles, granted>>

CallGetHouseholds(resp) ==
    LET r == getHouseholds(jwtToken, resp) IN
    /\ status = "running"
    /\ call' = [op |-> "GetHouseholds"]
    /\ sent' = r.sent
    /\ recv' = <<resp>>
    /\ ret' = IF IsError(r.err) THEN r.err ELSE Result(r.result)
    /\ pre' = ct.Chapters
    /\ UNCHANGED <<jwtToken, ct, status, openFiles, granted>>

\* GetCreativeTonies; the caller then works with the first element of the
\* result, when there is one
CallGetCreativeTonies(household, resp) ==
    LET r == getCreativeTonies(jwtToken, household, resp) IN
    /\ status = "running"
    /\ call' = [op |-> "GetCreativeTonies", household |-> household.ID]
    /\ sent' = r.sent
    /\ recv' = <<resp>>
    /\ ret' = IF IsError(r.err) THEN r.err ELSE Result(r.result)
    /\ pre' = ct.Chapters
    /\ ct' = IF ~IsError(r.err) /\ r.result # <<>> THEN r.result[1] ELSE ct
    /\ UNCHANGED <<jwtToken, status, openFiles, granted>>

CallRefresh(resp) ==
    LET r == Refresh(jwtToken, ct, resp) IN
    /\ status = "running"
    /\ call' = [op |-> "Refresh"]
    /\ sent' = r.sent
    /\ recv' = IF r.sent = <<>> THEN <<>> ELSE <<resp>>
    /\ ret' = r.err
    /\ pre' = ct.Chapters
    /\ ct' = r.tonie
    /\ UNCHANGED <<jwtToken, status, openFiles, granted>>

CallCommit(resp) ==
    LET r == Commit(jwtToken, ct, resp) IN
    /\ status = "running"
    /\ call' = [op |-> "Commit"]
    /\ sent' = r.sent
    /\ recv' = IF r.sent = <<>> THEN <<>> ELSE <<resp>>
    /\ ret' = r.err
    /\ pre' = ct.Chapters
    /\ UNCHANGED <<jwtToken, ct, status, openFiles, granted>>

CallUploadFile(title, filePath, credResp, s3Resp) ==
    LET r == UploadFile(jwtToken, ct, title, filePath, credResp, s3Resp) IN
    /\ status = "running"
    /\ Len(ct.Chapters) < MaxChapters
    /\ call' = [op |-> "UploadFile", title |-> title, filePath |-> filePath]
    /\ sent' = r.sent
    /\ recv' = r.recv
    /\ ret' = IF r.panic THEN [kind |-> "panic"] ELSE r.err
    /\ status' = IF r.panic THEN "panicked" ELSE "running"
    /\ pre' = ct.Chapters
    /\ ct' = [ct EXCEPT !.Chapters = r.Chapters,
                        !.ChaptersNil = @ /\ r.Chapters = <<>>]
    /\ openFiles' = openFiles + r.opened - r.closed
    /\ UNCHANGED <<jwtToken, granted>>

CallFindChapterByTitle(title) ==
    /\ status = "running"
    /\ call' = [op |-> "FindChapterByTitle", title |-> title]
    /\ sent' = <<>>
    /\ recv' = <<>>
    /\ ret' = [kind |-> "ok", index |-> FindChapterByTitle(ct, title)]
    /\ pre' = ct.Chapters
    /\ UNCHANGED <<jwtToken, ct, status, openFiles, granted>>

CallDeleteChapter(chapter) ==
    /\ status = "running"
    /\ call' = [op |-> "DeleteChapter", chapter |-> chapter]
    /\ sent' = <<>>
    /\ recv' = <<>>
    /\ ret' = NoError
    /\ pre' = ct.Chapters
    /\ ct' = [ct EXCEPT !.Chapters = DeleteChapter(ct, chapter),
                        !.ChaptersNil = DeleteChapter(ct, chapter) = <<>>]
    /\ UNCHANGED <<jwtToken, status, openFiles, granted>>

\* the caller assigns the exported field Name (tonie.Name = "New Name")
CallRename(name) ==
    /\ status = "running"
    /\ call' = [op |-> "Rename", name |-> name]
    /\ sent' = <<>>
    /\ recv' = <<>>
    /\ ret' = NoError
    /\ pre' = ct.Chapters
    /\ ct' = [ct EXCEPT !.Name = name]
    /\ UNCHANGED <<jwtToken, status, openFiles, granted>>

CallDisconnect(resp) ==
    LET r == disconnect(jwtToken, resp) IN
    /\ status = "running"
    /\ call' = [op |-> "Disconnect"]
    /\ sent' = r.sent
    /\ recv' = <<resp>>
    /\ ret' = r.err
    /\ pre' = ct.Chapters
    /\ UNCHANGED <<jwtToken, ct, status, openFiles, granted>>

Next ==
    \/ \E d \in Credentials, resp \in LoginResponses : CallLogin(d, resp)
    \/ \E resp \in MeResponses : CallGetMe(resp)
    \/ \E resp \in HouseholdsResponses : CallGetHouseholds(resp)
    \/ \E h \in CallerHouseholds, resp \in ListingResponses :
           CallGetCreativeTonies(h, resp)
    \/ \E resp \in FetchResponses : CallRefresh(resp)
    \/ \E resp \in PatchResponses : CallCommit(resp)
    \/ \E title \in Titles, filePath \in Paths, credResp \in CredentialResponses :
         \E s3Resp \in S3ResponsesAfter(filePath, credResp) :
           CallUploadFile(title, filePath, credResp, s3Resp)
    \/ \E title \in SearchTitles : CallFindChapterByTitle(title)
    \/ \E chapter \in Range(ct.Chapters) \cup {ForeignChapter} :
           CallDeleteChapter(chapter)
    \/ \E resp \in SessionResponses : CallDisconnect(resp)
    \/ \E name \in LocalNames : CallRename(name)

Spec == Init /\ [][Next]_vars

TypeOK ==
    /\ status \in {"running", "panicked"}
    /\ openFiles \in 0..1
    /\ Len(ct.Chapters) <= MaxChapters
    /\ ret.kind \in {"ok", "error", "panic"}

(***************************************************************************)
(* Properties                                                              *)
(***************************************************************************)
\* the requests that go to the vendor API, i.e. the authenticated ones
IsApiRequest(req) == req.URL \notin {openIDConnect, fileUploadAmazon}

HasHeader(req, name) == name \in DOMAIN req.Header

\* C1: after a successful Login the stored token's access-token value is the
\* access_token member of that login's response body, and every request the
\* client then issues to the vendor API (GetMe, GetHouseholds,
\* GetCreativeTonies, Refresh, Commit, the upload credential request,
\* Disconnect) carries Authorization: Bearer <that value>.
C1_BearerVerbatim ==
    granted.set =>
        /\ jwtToken # NilToken
        /\ jwtToken.AccessToken = granted.access_token
        /\ \A i \in DOMAIN sent :
               IsApiRequest(sent[i]) =>
                   /\ HasHeader(sent[i], "Authorization")
                   /\ sent[i].Header["Authorization"]
                          = "Bearer " \o granted.access_token

C1_Witness ==
    /\ granted.set
    /\ granted.access_token = "abc123"
    /\ call.op = "GetMe"
    /\ Len(sent) = 1
    /\ sent[1].URL = me
    /\ sent[1].Header["Authorization"] = "Bearer abc123"

\* C2 as stated: once a token is stored it is never changed, whatever
\* operation follows (a further Login included).
C2_TokenSetOnce == [][jwtToken # NilToken => jwtToken' = jwtToken]_vars

\* C2, amended: the stored token changes only in a successful Login, which
\* replaces it by the token decoded from that login's response; no other
\* operation (a failed Login and a successful Disconnect included) changes
\* it, and it is never reset to absent.
C2_TokenChangedOnlyByLogin ==
    [][jwtToken' # jwtToken =>
          /\ call'.op = "Login"
          /\ ret' = NoError
          /\ recv'[1].kind = "http"
          /\ jwtToken' = DecodeJWTToken(recv'[1].Body).val]_vars

C2_Witness ==
    /\ call.op = "Disconnect"
    /\ ret = NoError
    /\ jwtToken # NilToken
    /\ jwtToken.AccessToken = "xyz789"

\* C3: a Login that fails (transport error, non-200 status, undecodable
\* body) returns an error and leaves the token as it was, absent if it was
\* absent, and the client goes on running.
C3_FailedLoginKeepsToken ==
    [][(call'.op = "Login" /\ ret' # NoError) =>
          /\ IsError(ret')
          /\ jwtToken' = jwtToken
          /\ granted' = granted
          /\ status' = "running"]_vars

C3_Witness ==
    /\ call.op = "Login"
    /\ IsError(ret)
    /\ recv[1].kind = "http"
    /\ recv[1].StatusCode = 401
    /\ jwtToken = NilToken
    /\ status = "running"

\* C4: an UploadFile that fails at any step returns an error and leaves the
\* tonie's chapter sequence as it was before the call.
C4_FailedUploadKeepsChapters ==
    (call.op = "UploadFile" /\ ret # NoError) =>
        /\ ct.Chapters = pre
        /\ sent # <<>> => IsError(ret)

C4_Witness ==
    /\ call.op = "UploadFile"
    /\ IsError(ret)
    /\ Len(sent) = 2
    /\ recv[2].kind = "http"
    /\ recv[2].StatusCode = 403
    /\ Len(ct.Chapters) = 2

\* the key and the file identifier of a ticket, as sent
TicketKeyMember(doc) == doc.o["request"].o["fields"].o["key"].s
TicketFileIdMember(doc) == doc.o["fileId"].s

\* C5: a successful UploadFile(title, path) appends exactly one chapter at
\* the end, with the ticket's key as id, the ticket's file identifier as
\* file and the given title; the chapters before it keep value and position;
\* no PATCH and no request to the per-entity endpoint is issued.
C5_UploadAppendsOneChapter ==
    (call.op = "UploadFile" /\ ret = NoError) =>
        /\ Len(ct.Chapters) = Len(pre) + 1
        /\ SubSeq(ct.Chapters, 1, Len(pre)) = pre
        /\ ct.Chapters[Len(pre) + 1].ID = TicketKeyMember(recv[1].Body)
        /\ ct.Chapters[Len(pre) + 1].File = TicketFileIdMember(recv[1].Body)
        /\ ct.Chapters[Len(pre) + 1].Title = call.title
        /\ \A i \in DOMAIN sent :
               /\ sent[i].Method # "PATCH"
               /\ sent[i].URL # creativeTonie(ct.household.ID, ct.ID)

C5_Witness ==
    /\ call.op = "UploadFile"
    /\ ret = NoError
    /\ Len(pre) = 2
    /\ Len(ct.Chapters) = 3
    /\ ct.Chapters[3] = [ID |-> "k1", File |-> "f1", Title |-> "A",
                         Seconds |-> 0, Transcoding |-> FALSE]

\* C6 as stated: an UploadFile whose local file cannot be opened returns an
\* error without having issued any HTTP request.
C6_NoRequestBeforeOpen ==
    (call.op = "UploadFile" /\ ~CanOpen(call.filePath) /\ status = "running") =>
        /\ IsError(ret)
        /\ sent = <<>>

\* C6, amended: an UploadFile whose local file cannot be opened never
\* succeeds, never issues the object-storage POST and never changes the
\* chapters, but the file is opened only after the credential request: when
\* the call returns the file-open error, exactly one request has been
\* issued, the credential POST, and it was answered with 200.
C6_OpenFailsAfterCredentialRequest ==
    (call.op = "UploadFile" /\ ~CanOpen(call.filePath)) =>
        /\ ret # NoError
        /\ status = "running" => IsError(ret)
        /\ ct.Chapters = pre
        /\ Len(sent) <= 1
        /\ \A i \in DOMAIN sent : sent[i].URL # fileUploadAmazon
        /\ (IsError(ret) /\ ret.msg = "failed to open file") =>
               /\ Len(sent) = 1
               /\ sent[1].Method = "POST"
               /\ sent[1].URL = fileUpload
               /\ recv[1].kind = "http"
               /\ recv[1].StatusCode = StatusOK

C6_Witness ==
    /\ call.op = "UploadFile"
    /\ call.filePath = "missing.mp3"
    /\ IsError(ret)
    /\ ret.msg = "failed to open file"
    /\ Len(sent) = 1
    /\ sent[1].URL = fileUpload

\* whether the body decodes into the result the GET operation asks for
DecodesFor(op, doc) ==
    CASE op = "GetMe" -> MeOk(doc)
      [] op = "GetHouseholds" -> HouseholdsOk(doc)
      [] op = "GetCreativeTonies" -> CreativeToniesOk(doc)
      [] op = "Refresh" -> CreativeTonieOk(doc)

GetOps == {"GetMe", "GetHouseholds", "GetCreativeTonies", "Refresh"}

\* C7: an authenticated GET succeeds only when the status is 200 and the
\* body decodes (204 and any other status is an error; a 200 with a
\* mismatching body is a decode error without a status); an authenticated
\* PATCH succeeds exactly when the status is 200 or 204; an error for a
\* failing status carries that status and the raw body.
C7_StatusHandling ==
    /\ (call.op \in GetOps /\ sent # <<>>) =>
          /\ sent[1].Method = "GET"
          /\ ~IsError(ret) <=>
                 /\ recv[1].kind = "http"
                 /\ recv[1].StatusCode = 200
                 /\ DecodesFor(call.op, recv[1].Body)
          /\ (recv[1].kind = "http" /\ recv[1].StatusCode # 200) =>
                 /\ IsError(ret)
                 /\ "status" \in DOMAIN ret
                 /\ ret.status = recv[1].StatusCode
                 /\ ret.body = recv[1].Body
          /\ (recv[1].kind = "http" /\ recv[1].StatusCode = 200
              /\ ~DecodesFor(call.op, recv[1].Body)) =>
                 /\ IsError(ret)
                 /\ "status" \notin DOMAIN ret
                 /\ ret.msg = "failed to decode response"
    /\ (call.op = "Commit" /\ sent # <<>>) =>
          /\ sent[1].Method = "PATCH"
          /\ ret = NoError <=>
                 /\ recv[1].kind = "http"
                 /\ recv[1].StatusCode \in {200, 204}
          /\ (recv[1].kind = "http" /\ recv[1].StatusCode \notin {200, 204}) =>
                 /\ IsError(ret)
                 /\ "status" \in DOMAIN ret
                 /\ ret.status = recv[1].StatusCode
                 /\ ret.body = recv[1].Body

C7_Witness ==
    /\ call.op = "GetMe"
    /\ recv[1].kind = "http"
    /\ recv[1].StatusCode = 204
    /\ MeOk(recv[1].Body)
    /\ IsError(ret)
    /\ ret.status = 204

\* the indices of the chapters of a sequence that carry an identifier
WithID(chapters, id) == {i \in DOMAIN chapters : chapters[i].ID = id}

\* C8: DeleteChapter(chapter) removes every chapter whose identifier is the
\* given chapter's and nothing else: the others remain in their order, the
\* length drops by the number of chapters with that identifier, and no
\* request is issued.
C8_DeleteRemovesAllWithId ==
    call.op = "DeleteChapter" =>
        LET Other(c) == c.ID # call.chapter.ID IN
        /\ ct.Chapters = SelectSeq(pre, Other)
        /\ Len(ct.Chapters) = Len(pre) - Cardinality(WithID(pre, call.chapter.ID))
        /\ sent = <<>>

C8_Witness ==
    /\ call.op = "DeleteChapter"
    /\ Len(pre) = 3
    /\ Cardinality(WithID(pre, call.chapter.ID)) = 2
    /\ pre[2].ID = call.chapter.ID
    /\ pre[2].Title # pre[3].Title
    /\ ct.Chapters = <<pre[1]>>

\* the indices of the chapters of a sequence that carry a title
WithTitle(chapters, title) == {i \in DOMAIN chapters : chapters[i].Title = title}

\* C9: after DeleteChapter(c), for c a chapter of the sequence whose title no
\* other chapter of the sequence carried, FindChapterByTitle(c.Title) returns
\* not found.
C9_DeleteThenFindNotFound ==
    (/\ call.op = "DeleteChapter"
     /\ call.chapter \in Range(pre)
     /\ Cardinality(WithTitle(pre, call.chapter.Title)) = 1) =>
        FindChapterByTitle(ct, call.chapter.Title) = 0

C9_Witness ==
    /\ call.op = "DeleteChapter"
    /\ call.chapter \in Range(pre)
    /\ Cardinality(WithTitle(pre, call.chapter.Title)) = 1
    /\ Len(pre) = 3
    /\ Len(ct.Chapters) = 1
    /\ FindChapterByTitle(ct, call.chapter.Title) = 0

\* C10: FindChapterByTitle(title) returns the chapter at the lowest index
\* whose title equals the given title, returns not found exactly when no
\* chapter has that title, and leaves the chapter sequence as it was.
C10_FindFirstMatch ==
    call.op = "FindChapterByTitle" =>
        /\ ret.index = 0 <=> WithTitle(ct.Chapters, call.title) = {}
        /\ ret.index # 0 =>
               /\ ret.index \in WithTitle(ct.Chapters, call.title)
               /\ \A j \in WithTitle(ct.Chapters, call.title) : ret.index <= j
        /\ ct.Chapters = pre

C10_Witness ==
    /\ call.op = "FindChapterByTitle"
    /\ Len(ct.Chapters) = 3
    /\ ret.index = 2
    /\ 3 \in WithTitle(ct.Chapters, call.title)

\* the chapter a JSON chapter object stands for, member by member
ChapterOfDoc(doc) ==
    [ID |-> doc.o.id.s, File |-> doc.o.file.s, Title |-> doc.o.title.s,
     Seconds |-> doc.o.seconds.n, Transcoding |-> doc.o.transcoding.b]

\* C11: a successful Refresh overwrites every data field of the instance
\* (identifier, name, live, private, image, transcoding state and errors,
\* seconds and chapter counters, chapter sequence, household id) with the
\* values of the fetched entity, whatever was changed locally, and keeps the
\* household and request-handler back-references of the instance.
C11_RefreshOverwritesFields ==
    [][(call'.op = "Refresh" /\ ret' = NoError) =>
          LET o == recv'[1].Body.o IN
          /\ sent'[1].URL = creativeTonie(ct.household.ID, ct.ID)
          /\ ct'.ID = o.id.s
          /\ ct'.Name = o.name.s
          /\ ct'.Live = o.live.b
          /\ ct'.Private = o.private.b
          /\ ct'.ImageURL = o.imageUrl.s
          /\ ct'.Transcoding = o.transcoding.b
          /\ Len(ct'.TranscodingErrors) = Len(o.transcodingErrors.a)
          /\ \A i \in DOMAIN o.transcodingErrors.a :
                 ct'.TranscodingErrors[i] = o.transcodingErrors.a[i].s
          /\ ct'.SecondsPresent = o.secondsPresent.n
          /\ ct'.SecondsRemaining = o.secondsRemaining.n
          /\ ct'.ChaptersPresent = o.chaptersPresent.n
          /\ ct'.ChaptersRemaining = o.chaptersRemaining.n
          /\ Len(ct'.Chapters) = Len(o.chapters.a)
          /\ \A i \in DOMAIN o.chapters.a :
                 ct'.Chapters[i] = ChapterOfDoc(o.chapters.a[i])
          /\ ct'.HouseholdID = o.householdId.s
          /\ ct'.household = ct.household
          /\ ct'.requestHandler = ct.requestHandler]_vars

C11_Witness ==
    /\ call.op = "Refresh"
    /\ ret = NoError
    /\ Len(pre) = 3
    /\ ct.Chapters = <<>>
    /\ ct.Name = "Renamed"
    /\ ct.requestHandler = "rh"

\* the members of the JSON object a CreativeTonie is serialized to
TonieMembers ==
    {"id", "name", "live", "private", "imageUrl", "transcodingErrors",
     "transcoding", "secondsPresent", "secondsRemaining", "chaptersPresent",
     "chaptersRemaining", "chapters", "householdId"}

\* a JSON object carries the data fields of a tonie and nothing else
CarriesTonie(doc, tonie) ==
    /\ doc.t = "object"
    /\ DOMAIN doc.o = TonieMembers
    /\ doc.o.id.s = tonie.ID
    /\ doc.o.name.s = tonie.Name
    /\ doc.o.live.b = tonie.Live
    /\ doc.o.private.b = tonie.Private
    /\ doc.o.imageUrl.s = tonie.ImageURL
    /\ doc.o.transcoding.b = tonie.Transcoding
    /\ doc.o.secondsPresent.n = tonie.SecondsPresent
    /\ doc.o.secondsRemaining.n = tonie.SecondsRemaining
    /\ doc.o.chaptersPresent.n = tonie.ChaptersPresent
    /\ doc.o.chaptersRemaining.n = tonie.ChaptersRemaining
    /\ doc.o.householdId.s = tonie.HouseholdID
    /\ IF doc.o.transcodingErrors.t = "null" THEN tonie.TranscodingErrors = <<>>
       ELSE /\ Len(doc.o.transcodingErrors.a) = Len(tonie.TranscodingErrors)
            /\ \A i \in DOMAIN tonie.TranscodingErrors :
                   doc.o.transcodingErrors.a[i].s = tonie.TranscodingErrors[i]
    /\ IF doc.o.chapters.t = "null" THEN tonie.Chapters = <<>>
       ELSE /\ Len(doc.o.chapters.a) = Len(tonie.Chapters)
            /\ \A i \in DOMAIN tonie.Chapters :
                   ChapterOfDoc(doc.o.chapters.a[i]) = tonie.Chapters[i]

\* C12: Commit on an instance that came from a listing sends one PATCH to the
\* per-entity endpoint whose body carries the current in-memory data fields
\* (the locally set name, the current chapters) and neither back-reference;
\* whether it succeeds or fails, the instance and the token are afterwards
\* what they were before the call.
C12_CommitSendsCurrentFields ==
    [][call'.op = "Commit" =>
          /\ ct' = ct
          /\ jwtToken' = jwtToken
          /\ ct.requestHandler # "nil" =>
                 /\ Len(sent') = 1
                 /\ sent'[1].Method = "PATCH"
                 /\ sent'[1].URL = creativeTonie(ct.household.ID, ct.ID)
                 /\ CarriesTonie(sent'[1].Body, ct)]_vars

C12_Witness ==
    /\ call.op = "Commit"
    /\ IsError(ret)
    /\ Len(sent) = 1
    /\ recv[1].kind = "http"
    /\ recv[1].StatusCode = 401
    /\ ct.Name = "New Name"
    /\ sent[1].Body.o.name.s = "New Name"
    /\ Len(ct.Chapters) = 2
    /\ Len(sent[1].Body.o.chapters.a) = 2

\* C13: Disconnect always issues the DELETE to the session endpoint, with the
\* bearer header exactly when a token is stored, and succeeds exactly when
\* the status is 200 or 204; an error for another status carries the status
\* and the body.
C13_DisconnectAlwaysAttempts ==
    call.op = "Disconnect" =>
        /\ Len(sent) = 1
        /\ sent[1].Method = "DELETE"
        /\ sent[1].URL = session
        /\ HasHeader(sent[1], "Authorization") <=> jwtToken # NilToken
        /\ jwtToken # NilToken =>
               sent[1].Header["Authorization"] = "Bearer " \o jwtToken.AccessToken
        /\ ret = NoError <=>
               /\ recv[1].kind = "http"
               /\ recv[1].StatusCode \in {200, 204}
        /\ (recv[1].kind = "http" /\ recv[1].StatusCode \notin {200, 204}) =>
               /\ IsError(ret)
               /\ ret.status = recv[1].StatusCode
               /\ ret.body = recv[1].Body

C13_Witness ==
    /\ call.op = "Disconnect"
    /\ jwtToken = NilToken
    /\ Len(sent) = 1
    /\ ~HasHeader(sent[1], "Authorization")
    /\ recv[1].kind = "http"
    /\ recv[1].StatusCode = 204
    /\ ret = NoError

\* the credential response lets the upload go on to step 2
CredentialGranted(resp) ==
    /\ resp.kind = "http"
    /\ resp.StatusCode = 200
    /\ AmazonBeanOk(resp.Body)

\* C14: within one UploadFile the credential POST comes first, the storage
\* POST only after the credential POST returned 200 with a decodable ticket,
\* the append only after the storage POST returned 200 or 204; each request
\* is issued at most once and answered before the next, and after a failure
\* nothing more is sent and nothing appended.
C14_UploadStepOrder ==
    call.op = "UploadFile" =>
        /\ Len(sent) <= 2
        /\ Len(recv) = Len(sent)
        /\ Len(sent) >= 1 =>
               /\ sent[1].Method = "POST"
               /\ sent[1].URL = fileUpload
        /\ Len(sent) = 2 =>
               /\ sent[2].Method = "POST"
               /\ sent[2].URL = fileUploadAmazon
               /\ CredentialGranted(recv[1])
        /\ ct.Chapters # pre =>
               /\ Len(sent) = 2
               /\ recv[2].kind = "http"
               /\ recv[2].StatusCode \in {200, 204}
        /\ (Len(sent) >= 1 /\ ~CredentialGranted(recv[1])) =>
               /\ Len(sent) = 1
               /\ IsError(ret)
               /\ ct.Chapters = pre
        /\ (Len(sent) = 2 /\ ~(recv[2].kind = "http"
                               /\ recv[2].StatusCode \in {200, 204})) =>
               /\ IsError(ret)
               /\ ct.Chapters = pre

C14_Witness ==
    /\ call.op = "UploadFile"
    /\ Len(sent) = 1
    /\ recv[1].kind = "http"
    /\ recv[1].StatusCode = 204
    /\ AmazonBeanOk(recv[1].Body)
    /\ IsError(ret)
    /\ ct.Chapters = pre

\* C15: whenever UploadFile has returned, on success or on any failure after
\* the file was opened, no file handle opened by it is still open.
C15_FileHandleReleased == openFiles = 0

C15_Witness ==
    /\ call.op = "UploadFile"
    /\ IsError(ret)
    /\ ret.msg = "S3 upload failed with status"
    /\ CanOpen(call.filePath)
    /\ openFiles = 0

\* C16: every public operation returns, with success or with an error, in
\* every reachable client state; in particular UploadFile on a tonie listed
\* by a client without a token does not dereference the absent token.
C16_EveryCallReturns ==
    /\ status = "running"
    /\ ret.kind \in {"ok", "error"}

\* C17: no request to the identity endpoint and none to the object storage
\* carries an Authorization header, whatever token is stored.
C17_BearerOnlyToApi ==
    \A i \in DOMAIN sent :
        sent[i].URL \in {openIDConnect, fileUploadAmazon} =>
            ~HasHeader(sent[i], "Authorization")

C17_Witness ==
    /\ call.op = "UploadFile"
    /\ jwtToken # NilToken
    /\ Len(sent) = 2
    /\ HasHeader(sent[1], "Authorization")
    /\ sent[2].URL = fileUploadAmazon
    /\ ~HasHeader(sent[2], "Authorization")

====
